---- MODULE Spec2Model ----
(***************************************************************************)
(* Model of src/main.rs of ldk-sample: the event loop handle_ldk_events,   *)
(* the two payment tables it shares with the command layer, the funding    *)
(* transaction construction and the sweep of spendable outputs.            *)
(*                                                                         *)
(* Rust Option<T> is modelled as a sequence of length 0 (None) or 1        *)
(* (Some); a HashMap as a function whose DOMAIN is its key set; a panic    *)
(* (assert!, unwrap, expect) inside the tokio task of handle_ldk_events    *)
(* ends that task: pc = "panicked".                                        *)
(***************************************************************************)
EXTENDS Integers, Sequences, FiniteSets, TLC

VARIABLES
    network,          \* args.network, fixed at startup
    pc,               \* position of the handle_ldk_events task
    chan,             \* messages buffered in the mpsc notification channel
    senders_open,     \* FALSE once every Sender of the channel is dropped
    cm_events,        \* pending events of the channel manager
    mon_events,       \* pending events of the chain monitor
    events,           \* the rest of the batch of the current cycle
    inbound_payments, \* HashMap<PaymentHash, PaymentInfo>
    outbound_payments,\* HashMap<PaymentHash, PaymentInfo>
    funding_generated,\* calls made to funding_transaction_generated
    broadcasts,       \* transactions given to broadcast_transaction
    forward_tasks,    \* detached tasks of PendingHTLCsForwardable
    drained,          \* number of events drained in the current cycle
    handled,          \* number of them whose handler ran to its end
    last,             \* the last event whose arm was entered: its outcome, and
                      \* the status its payment record had before
    last_claim,       \* per hash: result of the latest claim_funds call
    emitted,          \* number of events the engine and the monitor produced
    commands,         \* number of command-layer insertions
    start,            \* start_ldk: its position and what it has created
    locked,           \* the payment tables whose Mutex handle_ldk_events holds
    listing,          \* a row the command layer read when it last listed a table
    chain             \* bitcoind's best block and the blocks connected so far

\* The state that the arms of handle_ldk_events, taken as one step each, and
\* the collaborators of the loop leave alone.
aux == <<start, locked, listing, chain>>

vars == <<network, pc, chan, senders_open, cm_events, mon_events, events,
          inbound_payments, outbound_payments, funding_generated, broadcasts,
          forward_tasks, drained, handled, last, last_claim, emitted, commands,
          start, locked, listing, chain>>

----------------------------------------------------------------------------
(* Bounds of the model *)

MaxEvents == 2

MaxCommands == 2

\* The blocks bitcoind gains while the node starts and runs.
MaxBlocks == 2

----------------------------------------------------------------------------
(* Values *)

None == <<>>

Some(x) == <<x>>

Unwrap(o) == o[1]

Networks == {"Bitcoin", "Testnet", "Regtest", "Signet"}

Preimages == {1, 2}

\* Sha256::hash of a preimage: an injective map into the payment hashes.
Sha256Hash(p) == p + 1

PaymentHashes == {Sha256Hash(p) : p \in Preimages}

PaymentSecrets == {7}

Amounts == {1000, 2000}

HTLCStatus == {"Pending", "Succeeded", "Failed"}

MillisatAmount == {None} \cup {Some(a) : a \in Amounts}

\* The amounts of the invoices the command layer hands out (an invoice may
\* name no amount) and of the payments it sends.
InvoiceAmounts == {None, Some(2000)}

SentAmounts == {1000}

PaymentInfo ==
    [preimage : {None} \cup {Some(p) : p \in Preimages},
     secret : {None} \cup {Some(s) : s \in PaymentSecrets},
     status : HTLCStatus,
     amt_msat : MillisatAmount]

PaymentInfoStorage ==
    UNION {[D -> PaymentInfo] : D \in SUBSET PaymentHashes}

----------------------------------------------------------------------------
(* Events of lightning::util::events::Event, as the match of                *)
(* handle_ldk_events destructures them                                      *)

TemporaryChannelIds == {1, 2}

ChannelValues == {20000, 150000000}

OutputScripts == {5}

FundingGenerationReady(id, value, script) ==
    [kind |-> "FundingGenerationReady", temporary_channel_id |-> id,
     channel_value_satoshis |-> value, output_script |-> script]

PaymentReceived(hash, preimage, secret, amt) ==
    [kind |-> "PaymentReceived", payment_hash |-> hash,
     payment_preimage |-> preimage, payment_secret |-> secret, amt |-> amt]

PaymentSent(preimage) ==
    [kind |-> "PaymentSent", payment_preimage |-> preimage]

\* rejected_by_dest only selects the text that is printed; it is left out.
PaymentFailed(hash) ==
    [kind |-> "PaymentFailed", payment_hash |-> hash]

ForwardableTimes == {0, 1}

PendingHTLCsForwardable(time) ==
    [kind |-> "PendingHTLCsForwardable", time_forwardable |-> time]

SpendableOutputSets == {<<1>>, <<1, 2>>}

SpendableOutputs(outputs) ==
    [kind |-> "SpendableOutputs", outputs |-> outputs]

\* What the channel manager can have pending.  The preimage of a received
\* payment is an Option: the engine knows it or not; when it does, it is the
\* preimage of the payment hash.
FundingEvents ==
    {FundingGenerationReady(id, v, s) :
        id \in TemporaryChannelIds, v \in ChannelValues, s \in OutputScripts}

PaymentEvents ==
    UNION {{PaymentReceived(Sha256Hash(p), pre, s, a) :
               pre \in {None, Some(p)}, s \in PaymentSecrets, a \in Amounts} :
           p \in Preimages}
    \cup {PaymentSent(p) : p \in Preimages}
    \cup {PaymentFailed(h) : h \in PaymentHashes}

\* The events of a payment that settles: received, of one amount and with
\* its preimage, or sent.
SettlementEvents ==
    {ev \in PaymentEvents :
        \/ /\ ev.kind = "PaymentReceived"
           /\ ev.amt = 1000
           /\ ev.payment_preimage # None
        \/ ev.kind = "PaymentSent"}

ForwardableEvents == {PendingHTLCsForwardable(t) : t \in ForwardableTimes}

\* What the chain monitor can have pending.
ChainMonitorEvents == {SpendableOutputs(o) : o \in SpendableOutputSets}

----------------------------------------------------------------------------
(* The wallet (bitcoind) and the transactions it builds                     *)

SatPerBtc == 100000000

\* A variant that keeps whole bitcoins only.
BtcAmount_Whole(sat) == [btc |-> sat \div SatPerBtc, decimals |-> 0]

\* channel_value_satoshis as f64 / 100_000_000.0: an amount in BTC, a whole
\* part and eight decimals.
BtcAmount(sat) == [btc |-> sat \div SatPerBtc, decimals |-> sat % SatPerBtc]

\* The wallet reads an amount in BTC back into satoshis.
AmountFromValue(a) == a.btc * SatPerBtc + a.decimals

Hrp(net) ==
    CASE net = "Bitcoin" -> "bc"
      [] net = "Testnet" -> "tb"
      [] net = "Regtest" -> "bcrt"

\* WitnessProgram::from_scriptpubkey(..).to_address()
ToAddress(script, net) == [hrp |-> Hrp(net), program |-> script]

\* The wallet decodes an address into the script it pays to.
ScriptOfAddress(addr) == addr.program

\* createrawtransaction: no input, one output per entry of the map.
CreateRawTransaction(outputs) ==
    [input |-> 0,
     output |-> [i \in 1..Len(outputs) |->
                    [script_pubkey |-> ScriptOfAddress(outputs[i].address),
                     value |-> AmountFromValue(outputs[i].amount)]]]

WalletChange == [script_pubkey |-> 9, value |-> 4]

ChangePositions == {-1, 0, 1}

InsertAt(seq, pos, x) ==
    SubSeq(seq, 1, pos) \o <<x>> \o SubSeq(seq, pos + 1, Len(seq))

\* fundrawtransaction: the wallet adds inputs and, unless it reports the
\* change position -1, a change output at changepos (0-based).  The reply
\* carries the transaction as hex.
FundedTx(raw_tx, changepos) ==
    [input |-> 1,
     output |-> IF changepos = -1 THEN raw_tx.output
                ELSE InsertAt(raw_tx.output, changepos, WalletChange)]

RECURSIVE FlattenOutputs(_)
FlattenOutputs(outs) ==
    IF outs = <<>> THEN <<>>
    ELSE <<Head(outs).script_pubkey, Head(outs).value>> \o FlattenOutputs(Tail(outs))

\* The consensus encoding of a transaction, as the wallet returns it in hex.
Serialize(tx) == <<tx.input, Len(tx.output)>> \o FlattenOutputs(tx.output)

\* encode::deserialize(hex_utils::to_vec(hex)): None when the bytes are not a
\* whole transaction.
Deserialize(hex) ==
    IF Len(hex) >= 2 /\ Len(hex) = 2 + 2 * hex[2]
    THEN Some([input |-> hex[1],
               output |-> [i \in 1..hex[2] |->
                             [script_pubkey |-> hex[1 + 2 * i],
                              value |-> hex[2 + 2 * i]]]])
    ELSE None

FundRawTransaction(raw_tx, changepos) ==
    [changepos |-> changepos, hex |-> Serialize(FundedTx(raw_tx, changepos))]

\* signrawtransactionwithwallet: the wallet signs the inputs of the
\* transaction it is given and leaves its outputs as they are; hex_ok = FALSE
\* is a reply whose hex is cut short.
SignRawTransactionWithWallet(hex, complete, hex_ok) ==
    [complete |-> complete,
     hex |-> IF hex_ok THEN Serialize(Unwrap(Deserialize(hex)))
             ELSE SubSeq(hex, 1, Len(hex) - 1)]

WalletAddressScript == [script_pubkey |-> 8]

\* KeysManager::spend_spendable_outputs: one transaction spending all the
\* descriptors to the destination script.
SpendingTx(outputs, destination) ==
    [input |-> outputs, output |-> <<destination>>]

----------------------------------------------------------------------------
(* State after start_ldk has spawned handle_ldk_events                      *)

ChannelCapacity == 2

EmptyStorage == [h \in {} |-> None]

NoEvent == [kind |-> "none", outcome |-> "none", event |-> None, before |-> "Absent"]

\* The chain names bitcoind reports in getblockchaininfo.
Chains == {"main", "test", "regtest", "signet"}

\* match args.network { Bitcoin => "main", Testnet => "test", .. }
ChainName(net) ==
    CASE net = "Bitcoin" -> "main"
      [] net = "Testnet" -> "test"
      [] net = "Regtest" -> "regtest"
      [] net = "Signet" -> "signet"

\* A variant that takes whatever chain bitcoind runs.
NetworkMatches_Any(bitcoind_chain, net) == TRUE

\* The negation of `bitcoind_chain != match args.network {..}`.
NetworkMatches(bitcoind_chain, net) == bitcoind_chain = ChainName(net)

\* start_ldk has reached the command loop of a fresh node: it has created
\* the channel manager, the peer listener, the chain synchronizer task, the
\* task of handle_ldk_events and the background processor.
Started(net) ==
    [pc |-> "running", exit |-> "none",
     bitcoind_chain |-> Some(ChainName(net)), keys_seed |-> "created",
     restarting_node |-> FALSE, best_block |-> Some(0), chain_tip |-> Some(0),
     channel_manager |-> TRUE, listener |-> TRUE,
     chain_sync |-> TRUE, event_task |-> TRUE, background |-> TRUE]

\* Nothing was listed yet.
NoListing == [table |-> "none", row |-> None]

Init ==
    /\ network \in Networks
    /\ pc = "waiting"
    /\ chan = 0
    /\ senders_open = TRUE
    /\ cm_events = <<>>
    /\ mon_events = <<>>
    /\ events = <<>>
    /\ inbound_payments = EmptyStorage
    /\ outbound_payments = EmptyStorage
    /\ funding_generated = <<>>
    /\ broadcasts = <<>>
    /\ forward_tasks = <<>>
    /\ drained = 0
    /\ handled = 0
    /\ last = NoEvent
    /\ last_claim = [h \in PaymentHashes |-> "none"]
    /\ emitted = 0
    /\ commands = 0
    /\ start = Started(network)
    /\ locked = {}
    /\ listing = NoListing
    /\ chain = [latest_height |-> 0, spv_tip |-> Some(0), connected |-> {}]

----------------------------------------------------------------------------
(* The collaborators of the loop: the engine and the monitor produce        *)
(* events, the holders of a Sender signal the loop, the command layer       *)
(* inserts payment records.                                                 *)

ChannelManagerEmit(pending) ==
    /\ emitted < MaxEvents
    /\ \E ev \in pending : cm_events' = Append(cm_events, ev)
    /\ emitted' = emitted + 1
    /\ UNCHANGED <<aux, network, pc, chan, senders_open, mon_events, events,
                   inbound_payments, outbound_payments, funding_generated,
                   broadcasts, forward_tasks, drained, handled, last,
                   last_claim, commands>>

EmitFundingEvent == ChannelManagerEmit(FundingEvents)

EmitPaymentEvent == ChannelManagerEmit(PaymentEvents)

EmitForwardableEvent == ChannelManagerEmit(ForwardableEvents)

EmitSettlementEvent == ChannelManagerEmit(SettlementEvents)

ChainMonitorEmit ==
    /\ emitted < MaxEvents
    /\ \E ev \in ChainMonitorEvents : mon_events' = Append(mon_events, ev)
    /\ emitted' = emitted + 1
    /\ UNCHANGED <<aux, network, pc, chan, senders_open, cm_events, events,
                   inbound_payments, outbound_payments, funding_generated,
                   broadcasts, forward_tasks, drained, handled, last,
                   last_claim, commands>>

\* A holder of a Sender puts () into the channel; a send on a full channel
\* changes nothing and is not a step.
Notify ==
    /\ senders_open
    /\ chan < ChannelCapacity
    /\ chan' = chan + 1
    /\ UNCHANGED <<aux, network, pc, senders_open, cm_events, mon_events, events,
                   inbound_payments, outbound_payments, funding_generated,
                   broadcasts, forward_tasks, drained, handled, last,
                   last_claim, emitted, commands>>

\* Every Sender of the channel is dropped.
DropSenders ==
    /\ senders_open
    /\ senders_open' = FALSE
    /\ UNCHANGED <<aux, network, pc, chan, cm_events, mon_events, events,
                   inbound_payments, outbound_payments, funding_generated,
                   broadcasts, forward_tasks, drained, handled, last,
                   last_claim, emitted, commands>>

\* The status of the record of a hash, "Absent" when the table has none.
StatusOf(payments, hash) ==
    IF hash \in DOMAIN payments THEN payments[hash].status ELSE "Absent"

Insert(payments, hash, info) ==
    [h \in DOMAIN payments \cup {hash} |-> IF h = hash THEN info ELSE payments[h]]

\* The command layer records an invoice it hands out: a new hash, Pending,
\* with the invoice's amount when it has one.
RecordInbound ==
    /\ commands < MaxCommands
    /\ "inbound" \notin locked
    /\ \E h \in PaymentHashes \ DOMAIN inbound_payments,
          s \in PaymentSecrets, a \in InvoiceAmounts :
          inbound_payments' =
              Insert(inbound_payments, h,
                     [preimage |-> None, secret |-> Some(s),
                      status |-> "Pending", amt_msat |-> a])
    /\ commands' = commands + 1
    /\ UNCHANGED <<aux, network, pc, chan, senders_open, cm_events, mon_events,
                   events, outbound_payments, funding_generated, broadcasts,
                   forward_tasks, drained, handled, last, last_claim, emitted>>

\* The command layer records a payment it sends: a new hash, Pending.
RecordOutbound ==
    /\ commands < MaxCommands
    /\ "outbound" \notin locked
    /\ \E h \in PaymentHashes \ DOMAIN outbound_payments, a \in SentAmounts :
          outbound_payments' =
              Insert(outbound_payments, h,
                     [preimage |-> None, secret |-> None,
                      status |-> "Pending", amt_msat |-> Some(a)])
    /\ commands' = commands + 1
    /\ UNCHANGED <<aux, network, pc, chan, senders_open, cm_events, mon_events,
                   events, inbound_payments, funding_generated, broadcasts,
                   forward_tasks, drained, handled, last, last_claim, emitted>>

----------------------------------------------------------------------------
(* handle_ldk_events: the wait, the drain, the end of a batch               *)

\* event_receiver.recv() returns Some(()): a buffered message is taken.
Recv ==
    /\ pc = "waiting"
    /\ chan > 0
    /\ chan' = chan - 1
    /\ pc' = "drain_manager"
    /\ UNCHANGED <<aux, network, senders_open, cm_events, mon_events, events,
                   inbound_payments, outbound_payments, funding_generated,
                   broadcasts, forward_tasks, drained, handled, last,
                   last_claim, emitted, commands>>

\* event_receiver.recv() returns None: the channel is empty and closed.
RecvClosed ==
    /\ pc = "waiting"
    /\ chan = 0
    /\ ~senders_open
    /\ pc' = "shutdown"
    /\ UNCHANGED <<aux, network, chan, senders_open, cm_events, mon_events, events,
                   inbound_payments, outbound_payments, funding_generated,
                   broadcasts, forward_tasks, drained, handled, last,
                   last_claim, emitted, commands>>

\* channel_manager.get_and_clear_pending_events()
DrainChannelManager ==
    /\ pc = "drain_manager"
    /\ events' = cm_events
    /\ cm_events' = <<>>
    /\ pc' = "drain_monitor"
    /\ UNCHANGED <<aux, network, chan, senders_open, mon_events, inbound_payments,
                   outbound_payments, funding_generated, broadcasts,
                   forward_tasks, drained, handled, last, last_claim, emitted,
                   commands>>

\* Vec::append with the monitor's events put before the batch.
AppendEvents_Front(batch, more) == more \o batch

\* Vec::append: the events of `more` go behind those of the batch, in order.
AppendEvents(batch, more) == batch \o more

\* events.append(&mut chain_monitor.get_and_clear_pending_events())
DrainChainMonitor ==
    /\ pc = "drain_monitor"
    /\ events' = AppendEvents(events, mon_events)
    /\ mon_events' = <<>>
    /\ drained' = Len(events')
    /\ handled' = 0
    /\ pc' = "processing"
    /\ UNCHANGED <<aux, network, chan, senders_open, cm_events, inbound_payments,
                   outbound_payments, funding_generated, broadcasts,
                   forward_tasks, last, last_claim, emitted, commands>>

\* The for loop is over: tokio::time::sleep(Duration::from_secs(1)).
EndBatch ==
    /\ pc = "processing"
    /\ events = <<>>
    /\ pc' = "sleeping"
    /\ UNCHANGED <<aux, network, chan, senders_open, cm_events, mon_events, events,
                   inbound_payments, outbound_payments, funding_generated,
                   broadcasts, forward_tasks, drained, handled, last,
                   last_claim, emitted, commands>>

\* The sleep is over: back to the top of the loop.
Wake ==
    /\ pc = "sleeping"
    /\ pc' = "waiting"
    /\ drained' = 0
    /\ handled' = 0
    /\ UNCHANGED <<aux, network, chan, senders_open, cm_events, mon_events, events,
                   inbound_payments, outbound_payments, funding_generated,
                   broadcasts, forward_tasks, last, last_claim, emitted,
                   commands>>

Handling(kind) ==
    /\ pc = "processing"
    /\ events # <<>>
    /\ Head(events).kind = kind

\* A variant that looks for new events of the channel manager after every
\* arm and takes them into the batch.
Continue_Recheck ==
    /\ events' = Tail(events) \o cm_events
    /\ handled' = handled + 1
    /\ pc' = pc

\* The arm of the match ran to its end: the loop goes to the next event.
Continue ==
    /\ events' = Tail(events)
    /\ handled' = handled + 1
    /\ pc' = pc

\* A panic unwinds the task: the rest of the batch is dropped with it.
Panic ==
    /\ events' = <<>>
    /\ handled' = handled
    /\ pc' = "panicked"

----------------------------------------------------------------------------
(* Event::FundingGenerationReady                                            *)

\* The steps from the address to the deserialized transaction; each assert,
\* expect or unwrap that fails ends the attempt with a panic.
FundingAttempt(ev, net, changepos, complete, hex_ok) ==
    IF net = "Signet" THEN [outcome |-> "panic_signet", final_tx |-> None]
    ELSE
    LET addr == ToAddress(ev.output_script, net)
        outputs == <<[address |-> addr,
                      amount |-> BtcAmount(ev.channel_value_satoshis)]>>
        raw_tx == CreateRawTransaction(outputs)
        funded_tx == FundRawTransaction(raw_tx, changepos)
        signed_tx == SignRawTransactionWithWallet(funded_tx.hex, complete, hex_ok)
        final_tx == Deserialize(signed_tx.hex)
    IN  IF ~(funded_tx.changepos = 0 \/ funded_tx.changepos = 1)
        THEN [outcome |-> "panic_changepos", final_tx |-> None]
        ELSE IF signed_tx.complete # TRUE
        THEN [outcome |-> "panic_incomplete", final_tx |-> None]
        ELSE IF final_tx = None
        THEN [outcome |-> "panic_deserialize", final_tx |-> None]
        ELSE [outcome |-> "ok", final_tx |-> final_tx]

HandleFundingGenerationReady ==
    /\ Handling("FundingGenerationReady")
    /\ \E changepos \in ChangePositions, complete \in BOOLEAN,
          hex_ok \in BOOLEAN, generated_ok \in BOOLEAN :
        LET ev == Head(events)
            attempt == FundingAttempt(ev, network, changepos, complete, hex_ok)
        IN  IF attempt.outcome = "ok"
            THEN /\ funding_generated' =
                        Append(funding_generated,
                               [temporary_channel_id |-> ev.temporary_channel_id,
                                funding_transaction |-> Unwrap(attempt.final_tx)])
                 /\ IF generated_ok
                    THEN /\ Continue
                         /\ last' = [kind |-> ev.kind, outcome |-> "ok",
                                     event |-> Some(ev), before |-> "Absent"]
                    ELSE /\ Panic
                         /\ last' = [kind |-> ev.kind, outcome |-> "panic_funding_err",
                                     event |-> Some(ev), before |-> "Absent"]
            ELSE /\ funding_generated' = funding_generated
                 /\ Panic
                 /\ last' = [kind |-> ev.kind, outcome |-> attempt.outcome,
                             event |-> Some(ev), before |-> "Absent"]
    /\ UNCHANGED <<aux, network, chan, senders_open, cm_events, mon_events,
                   inbound_payments, outbound_payments, broadcasts,
                   forward_tasks, drained, last_claim, emitted, commands>>

----------------------------------------------------------------------------
(* Event::PaymentReceived                                                   *)

\* A variant that keeps a record that has succeeded as it is.
ReceivedPaymentUpdate_KeepSucceeded(payments, ev, status) ==
    IF ev.payment_hash \in DOMAIN payments
    THEN [payments EXCEPT ![ev.payment_hash] =
            [@ EXCEPT !.status = IF @ = "Succeeded" THEN @ ELSE status,
                      !.preimage = Some(Unwrap(ev.payment_preimage)),
                      !.secret = Some(ev.payment_secret)]]
    ELSE Insert(payments, ev.payment_hash,
                [preimage |-> Some(Unwrap(ev.payment_preimage)),
                 secret |-> Some(ev.payment_secret),
                 status |-> status,
                 amt_msat |-> Some(ev.amt)])

\* match payments.entry(payment_hash): Occupied or Vacant.
ReceivedPaymentUpdate(payments, ev, status) ==
    IF ev.payment_hash \in DOMAIN payments
    THEN [payments EXCEPT ![ev.payment_hash] =
            [@ EXCEPT !.status = status,
                      !.preimage = Some(Unwrap(ev.payment_preimage)),
                      !.secret = Some(ev.payment_secret)]]
    ELSE Insert(payments, ev.payment_hash,
                [preimage |-> Some(Unwrap(ev.payment_preimage)),
                 secret |-> Some(ev.payment_secret),
                 status |-> status,
                 amt_msat |-> Some(ev.amt)])

ClaimStatus(claimed) == IF claimed THEN "Succeeded" ELSE "Failed"

HandlePaymentReceived ==
    /\ Handling("PaymentReceived")
    /\ LET ev == Head(events) IN
        IF ev.payment_preimage = None
        THEN \* payment_preimage.unwrap() panics before claim_funds is called
             /\ Panic
             /\ last' = [kind |-> ev.kind, outcome |-> "panic_preimage",
                         event |-> Some(ev),
                         before |-> StatusOf(inbound_payments, ev.payment_hash)]
             /\ UNCHANGED <<inbound_payments, last_claim>>
        ELSE \E claimed \in BOOLEAN :
             /\ inbound_payments' =
                    ReceivedPaymentUpdate(inbound_payments, ev, ClaimStatus(claimed))
             /\ last_claim' = [last_claim EXCEPT ![ev.payment_hash] =
                                    IF claimed THEN "true" ELSE "false"]
             /\ Continue
             /\ last' = [kind |-> ev.kind,
                         outcome |-> IF claimed THEN "ok" ELSE "claim_failed",
                         event |-> Some(ev),
                         before |-> StatusOf(inbound_payments, ev.payment_hash)]
    /\ UNCHANGED <<aux, network, chan, senders_open, cm_events, mon_events,
                   outbound_payments, funding_generated, broadcasts,
                   forward_tasks, drained, emitted, commands>>

----------------------------------------------------------------------------
(* Event::PaymentSent                                                       *)

\* A variant that looks the record up under the preimage, not under its hash.
SentPaymentUpdate_NoHash(payments, payment_preimage) ==
    [h \in DOMAIN payments |->
        IF h = payment_preimage
        THEN [payments[h] EXCEPT !.preimage = Some(payment_preimage),
                                 !.status = "Succeeded"]
        ELSE payments[h]]

\* for (payment_hash, payment) in payments.iter_mut()
SentPaymentUpdate(payments, payment_preimage) ==
    LET hashed == Sha256Hash(payment_preimage) IN
    [h \in DOMAIN payments |->
        IF h = hashed
        THEN [payments[h] EXCEPT !.preimage = Some(payment_preimage),
                                 !.status = "Succeeded"]
        ELSE payments[h]]

HandlePaymentSent ==
    /\ Handling("PaymentSent")
    /\ LET ev == Head(events) IN
        /\ outbound_payments' =
               SentPaymentUpdate(outbound_payments, ev.payment_preimage)
        /\ last' = [kind |-> ev.kind, outcome |-> "ok", event |-> Some(ev),
                    before |-> StatusOf(outbound_payments,
                                        Sha256Hash(ev.payment_preimage))]
    /\ Continue
    /\ UNCHANGED <<aux, network, chan, senders_open, cm_events, mon_events,
                   inbound_payments, funding_generated, broadcasts,
                   forward_tasks, drained, last_claim, emitted, commands>>

----------------------------------------------------------------------------
(* Event::PaymentFailed                                                     *)

\* A variant that forgets a payment that failed: payments.remove.
FailedPaymentUpdate_Remove(payments, payment_hash) ==
    [h \in DOMAIN payments \ {payment_hash} |-> payments[h]]

\* A variant that records a failure it has no record for: entry().or_insert.
FailedPaymentUpdate_Insert(payments, payment_hash) ==
    IF payment_hash \in DOMAIN payments
    THEN [payments EXCEPT ![payment_hash].status = "Failed"]
    ELSE Insert(payments, payment_hash,
                [preimage |-> None, secret |-> None, status |-> "Failed",
                 amt_msat |-> None])

\* if payments.contains_key(&payment_hash) { payment.status = Failed }
FailedPaymentUpdate(payments, payment_hash) ==
    IF payment_hash \in DOMAIN payments
    THEN [payments EXCEPT ![payment_hash].status = "Failed"]
    ELSE payments

HandlePaymentFailed ==
    /\ Handling("PaymentFailed")
    /\ LET ev == Head(events) IN
        /\ outbound_payments' =
               FailedPaymentUpdate(outbound_payments, ev.payment_hash)
        /\ last' = [kind |-> ev.kind, outcome |-> "ok", event |-> Some(ev),
                    before |-> StatusOf(outbound_payments, ev.payment_hash)]
    /\ Continue
    /\ UNCHANGED <<aux, network, chan, senders_open, cm_events, mon_events,
                   inbound_payments, funding_generated, broadcasts,
                   forward_tasks, drained, last_claim, emitted, commands>>

----------------------------------------------------------------------------
(* Event::PendingHTLCsForwardable                                           *)

\* A variant without tokio::spawn: the arm itself draws the delay, sleeps
\* and calls process_pending_htlc_forwards, and a panic of gen_range is a
\* panic of the arm.
HandlePendingHTLCsForwardable_Inline ==
    /\ Handling("PendingHTLCsForwardable")
    /\ LET ev == Head(events)
           min == ev.time_forwardable IN
        /\ last' = [kind |-> ev.kind, outcome |-> "ok", event |-> Some(ev),
                    before |-> "Absent"]
        /\ IF min >= min * 5
           THEN /\ Panic
                /\ forward_tasks' =
                       Append(forward_tasks,
                              [min |-> min, stage |-> "panicked",
                               millis_to_sleep |-> 0])
           ELSE /\ Continue
                /\ \E d \in min..(min * 5 - 1) :
                      forward_tasks' =
                          Append(forward_tasks,
                                 [min |-> min, stage |-> "forwarded",
                                  millis_to_sleep |-> d])
    /\ UNCHANGED <<aux, network, chan, senders_open, cm_events, mon_events,
                   inbound_payments, outbound_payments, funding_generated,
                   broadcasts, drained, last_claim, emitted, commands>>

\* tokio::spawn: the closure is queued on the runtime and the arm is over.
HandlePendingHTLCsForwardable ==
    /\ Handling("PendingHTLCsForwardable")
    /\ LET ev == Head(events) IN
        /\ forward_tasks' =
               Append(forward_tasks,
                      [min |-> ev.time_forwardable, stage |-> "spawned",
                       millis_to_sleep |-> 0])
        /\ last' = [kind |-> ev.kind, outcome |-> "ok", event |-> Some(ev),
                    before |-> "Absent"]
    /\ Continue
    /\ UNCHANGED <<aux, network, chan, senders_open, cm_events, mon_events,
                   inbound_payments, outbound_payments, funding_generated,
                   broadcasts, drained, last_claim, emitted, commands>>

\* thread_rng().gen_range(min, min * 5): a value of [min, 5 min), and a
\* panic of the spawned task when that range is empty.
ForwardTaskStart ==
    \E i \in DOMAIN forward_tasks :
        /\ forward_tasks[i].stage = "spawned"
        /\ LET min == forward_tasks[i].min IN
            IF min >= min * 5
            THEN forward_tasks' = [forward_tasks EXCEPT ![i].stage = "panicked"]
            ELSE \E d \in min..(min * 5 - 1) :
                    forward_tasks' = [forward_tasks EXCEPT
                                        ![i].stage = "sleeping",
                                        ![i].millis_to_sleep = d]
        /\ UNCHANGED <<aux, network, pc, chan, senders_open, cm_events, mon_events,
                       events, inbound_payments, outbound_payments,
                       funding_generated, broadcasts, drained, handled, last,
                       last_claim, emitted, commands>>

\* The sleep of the spawned task is over: process_pending_htlc_forwards().
ForwardTaskRun ==
    \E i \in DOMAIN forward_tasks :
        /\ forward_tasks[i].stage = "sleeping"
        /\ forward_tasks' = [forward_tasks EXCEPT ![i].stage = "forwarded"]
        /\ UNCHANGED <<aux, network, pc, chan, senders_open, cm_events, mon_events,
                       events, inbound_payments, outbound_payments,
                       funding_generated, broadcasts, drained, handled, last,
                       last_claim, emitted, commands>>

----------------------------------------------------------------------------
(* Event::SpendableOutputs                                                  *)

\* A variant that broadcasts whatever the signing returned.
SweepBroadcasts_Unchecked(sent, outputs, signed_ok) ==
    Append(sent, SpendingTx(outputs, WalletAddressScript))

\* spend_spendable_outputs(..).unwrap() and then broadcast_transaction: the
\* transactions broadcast once the arm is over or has panicked.
SweepBroadcasts(sent, outputs, signed_ok) ==
    IF signed_ok
    THEN Append(sent, SpendingTx(outputs, WalletAddressScript))
    ELSE sent

HandleSpendableOutputs ==
    /\ Handling("SpendableOutputs")
    /\ \E signed_ok \in BOOLEAN :
        LET ev == Head(events) IN
        /\ broadcasts' = SweepBroadcasts(broadcasts, ev.outputs, signed_ok)
        /\ IF signed_ok
           THEN /\ Continue
                /\ last' = [kind |-> ev.kind, outcome |-> "ok",
                            event |-> Some(ev), before |-> "Absent"]
           ELSE /\ Panic
                /\ last' = [kind |-> ev.kind, outcome |-> "panic_sign",
                            event |-> Some(ev), before |-> "Absent"]
    /\ UNCHANGED <<aux, network, chan, senders_open, cm_events, mon_events,
                   inbound_payments, outbound_payments, funding_generated,
                   forward_tasks, drained, last_claim, emitted, commands>>

----------------------------------------------------------------------------
(* The arms of PaymentReceived and PaymentSent, one write at a time, and    *)
(* the command layer listing a table. A table is a Mutex: nobody reads or   *)
(* writes it without its lock, and lock() waits while another task holds    *)
(* it. `locked` holds the tables whose MutexGuard the event task holds.     *)

\* A variant that takes the lock for each write: the guard is dropped when
\* the write is done.
HeldAfterWrite_Dropped(held, table) == held \ {table}

\* `let mut payments = ...lock().unwrap()`: the guard lives to the end of the
\* arm, so after a write of the arm the lock is still held.
HeldAfterWrite(held, table) == held

\* The end of the arm drops the guard.
Unlock(held, table) == held \ {table}

\* let mut payments = inbound_payments.lock().unwrap();
ReceivedLock ==
    /\ Handling("PaymentReceived")
    /\ "inbound" \notin locked
    /\ locked' = locked \cup {"inbound"}
    /\ pc' = "received_locked"
    /\ UNCHANGED <<chain, start, listing, network, chan, senders_open, cm_events,
                   mon_events, events, inbound_payments, outbound_payments,
                   funding_generated, broadcasts, forward_tasks, drained,
                   handled, last, last_claim, emitted, commands>>

\* let status = match claim_funds(payment_preimage.unwrap()) {..}; the unwrap
\* of None panics and the unwinding drops the guard.
ReceivedClaim ==
    /\ pc = "received_locked"
    /\ LET ev == Head(events) IN
        IF ev.payment_preimage = None
        THEN /\ Panic
             /\ locked' = Unlock(locked, "inbound")
             /\ last' = [kind |-> ev.kind, outcome |-> "panic_preimage",
                         event |-> Some(ev),
                         before |-> StatusOf(inbound_payments, ev.payment_hash)]
             /\ UNCHANGED last_claim
        ELSE \E claimed \in BOOLEAN :
             /\ last_claim' = [last_claim EXCEPT ![ev.payment_hash] =
                                    IF claimed THEN "true" ELSE "false"]
             /\ pc' = "received_claimed"
             /\ UNCHANGED <<locked, events, handled, last>>
    /\ UNCHANGED <<chain, start, listing, network, chan, senders_open, cm_events,
                   mon_events, inbound_payments, outbound_payments,
                   funding_generated, broadcasts, forward_tasks, drained,
                   emitted, commands>>

\* The status the arm computed from claim_funds.
ClaimedStatus(hash) == ClaimStatus(last_claim[hash] = "true")

\* Entry::Occupied: payment.status = status;
ReceivedWriteStatus ==
    /\ pc = "received_claimed"
    /\ LET ev == Head(events) IN
        /\ ev.payment_hash \in DOMAIN inbound_payments
        /\ inbound_payments' =
               [inbound_payments EXCEPT
                   ![ev.payment_hash].status = ClaimedStatus(ev.payment_hash)]
        /\ last' = [kind |-> ev.kind,
                    outcome |-> IF last_claim[ev.payment_hash] = "true"
                                THEN "ok" ELSE "claim_failed",
                    event |-> Some(ev),
                    before |-> StatusOf(inbound_payments, ev.payment_hash)]
    /\ locked' = HeldAfterWrite(locked, "inbound")
    /\ pc' = "received_status"
    /\ UNCHANGED <<chain, start, listing, network, chan, senders_open, cm_events,
                   mon_events, events, outbound_payments, funding_generated,
                   broadcasts, forward_tasks, drained, handled, last_claim,
                   emitted, commands>>

\* Entry::Occupied: payment.preimage = Some(payment_preimage.unwrap());
ReceivedWritePreimage ==
    /\ pc = "received_status"
    /\ LET ev == Head(events) IN
        inbound_payments' =
            [inbound_payments EXCEPT
                ![ev.payment_hash].preimage = Some(Unwrap(ev.payment_preimage))]
    /\ locked' = HeldAfterWrite(locked, "inbound")
    /\ pc' = "received_preimage"
    /\ UNCHANGED <<chain, start, listing, network, chan, senders_open, cm_events,
                   mon_events, events, outbound_payments, funding_generated,
                   broadcasts, forward_tasks, drained, handled, last,
                   last_claim, emitted, commands>>

\* Entry::Occupied: payment.secret = Some(payment_secret); the arm is over.
ReceivedWriteSecret ==
    /\ pc = "received_preimage"
    /\ LET ev == Head(events) IN
        inbound_payments' =
            [inbound_payments EXCEPT
                ![ev.payment_hash].secret = Some(ev.payment_secret)]
    /\ locked' = Unlock(locked, "inbound")
    /\ events' = Tail(events)
    /\ handled' = handled + 1
    /\ pc' = "processing"
    /\ UNCHANGED <<chain, start, listing, network, chan, senders_open, cm_events,
                   mon_events, outbound_payments, funding_generated,
                   broadcasts, forward_tasks, drained, last, last_claim,
                   emitted, commands>>

\* Entry::Vacant: e.insert(PaymentInfo {..}); the arm is over.
ReceivedInsert ==
    /\ pc = "received_claimed"
    /\ LET ev == Head(events) IN
        /\ ev.payment_hash \notin DOMAIN inbound_payments
        /\ inbound_payments' =
               ReceivedPaymentUpdate(inbound_payments, ev,
                                     ClaimedStatus(ev.payment_hash))
        /\ last' = [kind |-> ev.kind,
                    outcome |-> IF last_claim[ev.payment_hash] = "true"
                                THEN "ok" ELSE "claim_failed",
                    event |-> Some(ev), before |-> "Absent"]
    /\ locked' = Unlock(locked, "inbound")
    /\ events' = Tail(events)
    /\ handled' = handled + 1
    /\ pc' = "processing"
    /\ UNCHANGED <<chain, start, listing, network, chan, senders_open, cm_events,
                   mon_events, outbound_payments, funding_generated,
                   broadcasts, forward_tasks, drained, last_claim, emitted,
                   commands>>

\* let mut payments = outbound_payments.lock().unwrap();
SentLock ==
    /\ Handling("PaymentSent")
    /\ "outbound" \notin locked
    /\ locked' = locked \cup {"outbound"}
    /\ pc' = "sent_locked"
    /\ UNCHANGED <<chain, start, listing, network, chan, senders_open, cm_events,
                   mon_events, events, inbound_payments, outbound_payments,
                   funding_generated, broadcasts, forward_tasks, drained,
                   handled, last, last_claim, emitted, commands>>

\* The record of the hash: payment.preimage = Some(payment_preimage);
SentWritePreimage ==
    /\ pc = "sent_locked"
    /\ LET ev == Head(events)
           hashed == Sha256Hash(ev.payment_preimage) IN
        /\ hashed \in DOMAIN outbound_payments
        /\ outbound_payments' =
               [outbound_payments EXCEPT
                   ![hashed].preimage = Some(ev.payment_preimage)]
        /\ last' = [kind |-> ev.kind, outcome |-> "ok", event |-> Some(ev),
                    before |-> StatusOf(outbound_payments, hashed)]
    /\ locked' = HeldAfterWrite(locked, "outbound")
    /\ pc' = "sent_preimage"
    /\ UNCHANGED <<chain, start, listing, network, chan, senders_open, cm_events,
                   mon_events, events, inbound_payments, funding_generated,
                   broadcasts, forward_tasks, drained, handled, last_claim,
                   emitted, commands>>

\* payment.status = HTLCStatus::Succeeded; no other record has the hash, the
\* for loop and the arm are over.
SentWriteStatus ==
    /\ pc = "sent_preimage"
    /\ LET hashed == Sha256Hash(Head(events).payment_preimage) IN
        outbound_payments' =
            [outbound_payments EXCEPT ![hashed].status = "Succeeded"]
    /\ locked' = Unlock(locked, "outbound")
    /\ events' = Tail(events)
    /\ handled' = handled + 1
    /\ pc' = "processing"
    /\ UNCHANGED <<chain, start, listing, network, chan, senders_open, cm_events,
                   mon_events, inbound_payments, funding_generated,
                   broadcasts, forward_tasks, drained, last, last_claim,
                   emitted, commands>>

\* No record has the hash: the for loop writes nothing.
SentNoMatch ==
    /\ pc = "sent_locked"
    /\ LET ev == Head(events) IN
        /\ Sha256Hash(ev.payment_preimage) \notin DOMAIN outbound_payments
        /\ last' = [kind |-> ev.kind, outcome |-> "ok", event |-> Some(ev),
                    before |-> "Absent"]
    /\ locked' = Unlock(locked, "outbound")
    /\ events' = Tail(events)
    /\ handled' = handled + 1
    /\ pc' = "processing"
    /\ UNCHANGED <<chain, start, listing, network, chan, senders_open, cm_events,
                   mon_events, inbound_payments, outbound_payments,
                   funding_generated, broadcasts, forward_tasks, drained,
                   last_claim, emitted, commands>>

\* The table of a name.
Table(table) ==
    IF table = "inbound" THEN inbound_payments ELSE outbound_payments

\* The command layer lists a table: it takes the lock, reads the records one
\* after the other and drops the lock. The listing keeps one of the rows.
ListPayments ==
    /\ \E table \in {"inbound", "outbound"} :
          /\ table \notin locked
          /\ \E h \in DOMAIN Table(table) :
                listing' = [table |-> table,
                            row |-> Some([payment_hash |-> h,
                                          info |-> Table(table)[h]])]
    /\ UNCHANGED <<chain, start, locked, network, pc, chan, senders_open, cm_events,
                   mon_events, events, inbound_payments, outbound_payments,
                   funding_generated, broadcasts, forward_tasks, drained,
                   handled, last, last_claim, emitted, commands>>

----------------------------------------------------------------------------

\* The loop of handle_ldk_events without the arms of its match.
Loop ==
    \/ Recv
    \/ DrainChannelManager
    \/ DrainChainMonitor
    \/ EndBatch
    \/ Wake

PaymentArms ==
    \/ HandlePaymentReceived
    \/ HandlePaymentSent
    \/ HandlePaymentFailed

Dispatcher ==
    \/ Loop
    \/ RecvClosed
    \/ HandleFundingGenerationReady
    \/ PaymentArms
    \/ HandlePendingHTLCsForwardable
    \/ HandleSpendableOutputs

Next ==
    \/ EmitFundingEvent
    \/ EmitPaymentEvent
    \/ EmitForwardableEvent
    \/ ChainMonitorEmit
    \/ Notify
    \/ DropSenders
    \/ RecordInbound
    \/ RecordOutbound
    \/ Dispatcher
    \/ ForwardTaskStart
    \/ ForwardTaskRun

Spec == Init /\ [][Next]_vars

\* The payment tables: the engine has payment events only, on regtest.
PaymentNext ==
    \/ EmitPaymentEvent
    \/ Notify
    \/ RecordInbound
    \/ RecordOutbound
    \/ Loop
    \/ PaymentArms

InitRegtest == Init /\ network = "Regtest"

PaymentSpec == InitRegtest /\ [][PaymentNext]_vars

\* The funding transaction: the engine has funding requests only, on every
\* network.
FundingNext ==
    \/ EmitFundingEvent
    \/ Notify
    \/ Loop
    \/ HandleFundingGenerationReady

FundingSpec == Init /\ [][FundingNext]_vars

\* The loop with every arm of its match and every source of events; the
\* command layer is idle.
DispatchNext ==
    \/ EmitFundingEvent
    \/ EmitPaymentEvent
    \/ EmitForwardableEvent
    \/ ChainMonitorEmit
    \/ Notify
    \/ DropSenders
    \/ Dispatcher
    \/ ForwardTaskStart
    \/ ForwardTaskRun

DispatchSpec == InitRegtest /\ [][DispatchNext]_vars

\* The runtime keeps scheduling the task of handle_ldk_events while it can
\* take a step; nothing obliges the collaborators to act.
FairDispatchSpec == DispatchSpec /\ WF_vars(Dispatcher)

\* The arms of the payment events with every write a step.
LockedArms ==
    \/ ReceivedLock
    \/ ReceivedClaim
    \/ ReceivedWriteStatus
    \/ ReceivedWritePreimage
    \/ ReceivedWriteSecret
    \/ ReceivedInsert
    \/ SentLock
    \/ SentWritePreimage
    \/ SentWriteStatus
    \/ SentNoMatch

LockNext ==
    \/ EmitSettlementEvent
    \/ Notify
    \/ RecordInbound
    \/ RecordOutbound
    \/ ListPayments
    \/ Loop
    \/ LockedArms

\* The payment events handled write by write while the command layer records
\* and lists payments.
LockSpec == InitRegtest /\ [][LockNext]_vars

----------------------------------------------------------------------------
(* Properties of the payment tables                                         *)

Succeeded(payments, h) == h \in DOMAIN payments /\ payments[h].status = "Succeeded"

Failed(payments, h) == h \in DOMAIN payments /\ payments[h].status = "Failed"

\* C1: a record of the inbound or of the outbound table whose status is
\* Succeeded is not Failed in the next state, whatever event is handled.
C1_StatusMonotonic ==
    [][\A h \in PaymentHashes :
          /\ Succeeded(inbound_payments, h) => ~Failed(inbound_payments', h)
          /\ Succeeded(outbound_payments, h) => ~Failed(outbound_payments', h)]_vars

\* C4: for every hash for which claim_funds has been called, the inbound
\* record is Succeeded exactly when the latest of these calls returned true.
C4_StatusIsLastClaim ==
    \A h \in PaymentHashes :
        last_claim[h] # "none" =>
            /\ h \in DOMAIN inbound_payments
            /\ inbound_payments[h].status = "Succeeded" <=> last_claim[h] = "true"

\* A PaymentReceived whose claim succeeded, for a hash whose record an
\* earlier failed claim had left Failed.
C4_Witness ==
    /\ last.kind = "PaymentReceived"
    /\ last.outcome = "ok"
    /\ last.before = "Failed"
    /\ last_claim[Unwrap(last.event).payment_hash] = "true"

\* C5: after a PaymentReceived whose claim succeeded, the inbound record of
\* its hash is Succeeded and holds the preimage and the amount of the event.
C5_ReceivedRecord ==
    (last.kind = "PaymentReceived" /\ last.outcome = "ok") =>
        LET ev == Unwrap(last.event) IN
        /\ ev.payment_hash \in DOMAIN inbound_payments
        /\ inbound_payments[ev.payment_hash].status = "Succeeded"
        /\ inbound_payments[ev.payment_hash].preimage = ev.payment_preimage
        /\ inbound_payments[ev.payment_hash].amt_msat = Some(ev.amt)

\* C6: the step that handles PaymentSent with preimage P sets the status
\* Succeeded and the preimage P in the outbound record of hash(P), if there
\* is one, and changes nothing else in either table.
C6_PaymentSentFrame ==
    [][(Handling("PaymentSent") /\ handled' = handled + 1) =>
          LET P == Head(events).payment_preimage IN
          /\ DOMAIN outbound_payments' = DOMAIN outbound_payments
          /\ \A h \in DOMAIN outbound_payments :
                outbound_payments'[h] =
                    IF h = Sha256Hash(P)
                    THEN [outbound_payments[h] EXCEPT !.status = "Succeeded",
                                                      !.preimage = Some(P)]
                    ELSE outbound_payments[h]
          /\ inbound_payments' = inbound_payments]_vars

\* A PaymentSent has been handled whose hash had a Pending record, next to a
\* record of another hash, and an inbound record.
C6_Witness ==
    /\ last.kind = "PaymentSent"
    /\ last.before = "Pending"
    /\ DOMAIN inbound_payments # {}
    /\ LET P == Unwrap(last.event).payment_preimage IN
        /\ Succeeded(outbound_payments, Sha256Hash(P))
        /\ outbound_payments[Sha256Hash(P)].preimage = Some(P)
        /\ \E h \in DOMAIN outbound_payments :
              h # Sha256Hash(P) /\ outbound_payments[h].status = "Pending"

----------------------------------------------------------------------------
(* Properties of the loop                                                   *)

\* C2: outside the for loop over a batch, every event that the cycle
\* drained has been handled to the end of its arm.
C2_NoEventLost ==
    pc # "processing" => handled = drained

FundingFailures ==
    {"panic_changepos", "panic_incomplete", "panic_deserialize", "panic_funding_err"}

\* C3: after a step of the funding construction has failed, the task of
\* handle_ldk_events is still running.
C3_FundingFailureIsSurvived ==
    (last.kind = "FundingGenerationReady" /\ last.outcome \in FundingFailures)
        => pc # "panicked"

\* C9: after spend_spendable_outputs has failed, the task of
\* handle_ldk_events is still running.
C9_SweepFailureIsSurvived ==
    (last.kind = "SpendableOutputs" /\ last.outcome = "panic_sign")
        => pc # "panicked"

\* C8: the step that handles SpendableOutputs with a signing that fails
\* broadcasts nothing and leaves the payment tables, the funding calls, the
\* spawned tasks and the pending events as they are.
C8_FailedSweepRecordsNothing ==
    [][(Handling("SpendableOutputs") /\ last'.outcome = "panic_sign") =>
          /\ broadcasts' = broadcasts
          /\ inbound_payments' = inbound_payments
          /\ outbound_payments' = outbound_payments
          /\ funding_generated' = funding_generated
          /\ forward_tasks' = forward_tasks
          /\ cm_events' = cm_events
          /\ mon_events' = mon_events]_vars

\* A sweep whose signing failed, after a sweep that was broadcast.
C8_Witness ==
    /\ last.kind = "SpendableOutputs"
    /\ last.outcome = "panic_sign"
    /\ Len(broadcasts) = 1

\* C10: a wait that starts or goes on with an event pending comes to an end.
C10_WaitIsBounded ==
    (pc = "waiting" /\ Len(cm_events) + Len(mon_events) > 0) ~> (pc # "waiting")

----------------------------------------------------------------------------
(* Properties of the funding transaction                                    *)

PaysTo(out, script, value) == out.script_pubkey = script /\ out.value = value

\* The steps of the task of handle_ldk_events that handle a funding request.
FundingStep == Handling("FundingGenerationReady") /\ last' # last

\* C7 as the specification states it: the transaction given to
\* funding_transaction_generated has one output and no other, of value V to
\* the script S; or the task stops without the call; nothing is called later.
C7_SingleOutput ==
    [][/\ FundingStep =>
            LET ev == Head(events) IN
            \/ /\ Len(funding_generated') = Len(funding_generated) + 1
               /\ LET call == funding_generated'[Len(funding_generated')] IN
                    /\ call.temporary_channel_id = ev.temporary_channel_id
                    /\ Len(call.funding_transaction.output) = 1
                    /\ PaysTo(call.funding_transaction.output[1],
                              ev.output_script, ev.channel_value_satoshis)
            \/ /\ funding_generated' = funding_generated
               /\ pc' = "panicked"
       /\ pc = "panicked" => funding_generated' = funding_generated]_vars

\* C7, amended: the transaction given to funding_transaction_generated has
\* two outputs, one of value V to the script S and the change of the wallet,
\* at position 0 or 1; or the task stops without the call; the call is made
\* once per request, and nothing is called after the task has stopped.
C7_OneFundingOutputAndChange ==
    [][/\ FundingStep =>
            LET ev == Head(events) IN
            \/ /\ Len(funding_generated') = Len(funding_generated) + 1
               /\ SubSeq(funding_generated', 1, Len(funding_generated))
                     = funding_generated
               /\ LET call == funding_generated'[Len(funding_generated')]
                      out == call.funding_transaction.output
                  IN /\ call.temporary_channel_id = ev.temporary_channel_id
                     /\ Len(out) = 2
                     /\ \E i \in {1, 2} :
                           /\ PaysTo(out[i], ev.output_script,
                                     ev.channel_value_satoshis)
                           /\ out[3 - i] = WalletChange
            \/ /\ funding_generated' = funding_generated
               /\ pc' = "panicked"
       /\ pc = "panicked" => funding_generated' = funding_generated]_vars

\* A funding request of 20000 satoshis has been handled and its transaction
\* given to the engine, with the change at position 0.
C7_Witness ==
    /\ last.kind = "FundingGenerationReady"
    /\ last.outcome = "ok"
    /\ Len(funding_generated) = 1
    /\ funding_generated[1].funding_transaction.output =
          <<WalletChange, [script_pubkey |-> 5, value |-> 20000]>>

----------------------------------------------------------------------------
(* start_ldk, from its first line to the command loop. `start` holds the    *)
(* position, what the steps read and what they created; the task of         *)
(* handle_ldk_events does not exist before Step 15 spawns it.               *)

\* start_ldk was entered: nothing is read, nothing is created.
Entered ==
    [pc |-> "args", exit |-> "none", bitcoind_chain |-> None,
     keys_seed |-> "none", restarting_node |-> FALSE,
     best_block |-> None, chain_tip |-> None,
     channel_manager |-> FALSE, listener |-> FALSE, chain_sync |-> FALSE,
     event_task |-> FALSE, background |-> FALSE]

StartInit ==
    /\ network \in Networks
    /\ pc = "not_started"
    /\ chan = 0
    /\ senders_open = TRUE
    /\ cm_events = <<>>
    /\ mon_events = <<>>
    /\ events = <<>>
    /\ inbound_payments = EmptyStorage
    /\ outbound_payments = EmptyStorage
    /\ funding_generated = <<>>
    /\ broadcasts = <<>>
    /\ forward_tasks = <<>>
    /\ drained = 0
    /\ handled = 0
    /\ last = NoEvent
    /\ last_claim = [h \in PaymentHashes |-> "none"]
    /\ emitted = 0
    /\ commands = 0
    /\ start = Entered
    /\ locked = {}
    /\ listing = NoListing
    /\ chain = [latest_height |-> 0, spv_tip |-> None, connected |-> {}]

\* What the steps of start_ldk that read the chain leave alone.
ChainStepFrame ==
    UNCHANGED <<locked, listing, network, pc, chan, senders_open, cm_events,
                mon_events, events, inbound_payments, outbound_payments,
                funding_generated, broadcasts, forward_tasks, drained,
                handled, last, last_claim, emitted, commands>>

\* What a step of start_ldk before Step 15 leaves alone.
StartFrame ==
    UNCHANGED <<chain, locked, listing, network, pc, chan, senders_open, cm_events,
                mon_events, events, inbound_payments, outbound_payments,
                funding_generated, broadcasts, forward_tasks, drained,
                handled, last, last_claim, emitted, commands>>

\* return: start_ldk is over and main with it.
Exit(reason) == [start EXCEPT !.pc = "exited", !.exit = reason]

\* cli::parse_startup_args()
StartParseArgs ==
    /\ start.pc = "args"
    /\ \E ok \in BOOLEAN :
          start' = IF ok THEN [start EXCEPT !.pc = "connect"] ELSE Exit("args")
    /\ StartFrame

\* BitcoindClient::new(..).await: Ok(client) or Err(e)
StartConnect ==
    /\ start.pc = "connect"
    /\ \E reachable \in BOOLEAN :
          start' = IF reachable
                   THEN [start EXCEPT !.pc = "check_network"]
                   ELSE Exit("unreachable")
    /\ StartFrame

\* get_blockchain_info().await.chain against the chain of args.network
StartCheckNetwork ==
    /\ start.pc = "check_network"
    /\ \E bitcoind_chain \in Chains :
          start' = IF NetworkMatches(bitcoind_chain, network)
                   THEN [start EXCEPT !.pc = "keys",
                                      !.bitcoind_chain = Some(bitcoind_chain)]
                   ELSE [Exit("network_mismatch") EXCEPT
                            !.bitcoind_chain = Some(bitcoind_chain)]
    /\ StartFrame

\* Steps 1 to 6: the seed is read from disk, or made and written to a new
\* file, or the file cannot be created.
StartKeysManager ==
    /\ start.pc = "keys"
    /\ \E seed \in {"read", "created", "create_failed"} :
          start' = IF seed = "create_failed"
                   THEN Exit("keys_seed")
                   ELSE [start EXCEPT !.pc = "channel_manager",
                                      !.keys_seed = seed]
    /\ StartFrame

\* init::synchronize_listeners: the blocks above the block the listener was
\* written at, up to bitcoind's best block, are connected.
SynchronizeListeners(connected, at, latest_height) ==
    connected \cup ((at + 1)..latest_height)

\* Steps 7 to 12. The channel manager is read from disk, written at some
\* block, and Step 9 brings it to bitcoind's best block, which becomes
\* chain_tip; or it is made fresh with bitcoind's best block as its best
\* block, and chain_tip stays None. A block is its height: the chain only
\* grows.
StartChannelManager ==
    /\ start.pc = "channel_manager"
    /\ \/ \E at \in 0..chain.latest_height :
             /\ start' = [start EXCEPT !.pc = "networking",
                                       !.restarting_node = TRUE,
                                       !.best_block = Some(at),
                                       !.chain_tip = Some(chain.latest_height),
                                       !.channel_manager = TRUE]
             /\ chain' = [chain EXCEPT !.connected =
                             SynchronizeListeners(@, at, chain.latest_height)]
       \/ /\ start' = [start EXCEPT !.pc = "networking",
                                     !.restarting_node = FALSE,
                                     !.best_block = Some(chain.latest_height),
                                     !.channel_manager = TRUE]
          /\ UNCHANGED chain
    /\ ChainStepFrame

\* Step 13: mpsc::channel(2) and the task of the peer listener.
StartNetworking ==
    /\ start.pc = "networking"
    /\ start' = [start EXCEPT !.pc = "blocks", !.listener = TRUE]
    /\ StartFrame

\* Step 14: when chain_tip is None it is read from bitcoind now
\* (validate_best_block_header); the task that polls the best tip is spawned
\* with an SpvClient that starts at chain_tip.
StartChainSync ==
    /\ start.pc = "blocks"
    /\ LET chain_tip == IF start.chain_tip = None
                        THEN Some(chain.latest_height)
                        ELSE start.chain_tip IN
        /\ start' = [start EXCEPT !.pc = "events", !.chain_tip = chain_tip,
                                  !.chain_sync = TRUE]
        /\ chain' = [chain EXCEPT !.spv_tip = chain_tip]
    /\ ChainStepFrame

\* bitcoind gains a block.
ChainAdvance ==
    /\ chain.latest_height < MaxBlocks
    /\ chain' = [chain EXCEPT !.latest_height = @ + 1]
    /\ UNCHANGED <<start, locked, listing, network, pc, chan, senders_open,
                   cm_events, mon_events, events, inbound_payments,
                   outbound_payments, funding_generated, broadcasts,
                   forward_tasks, drained, handled, last, last_claim, emitted,
                   commands>>

\* spv_client.poll_best_tip(): the blocks above the tip the SpvClient holds
\* are given to block_connected, and bitcoind's best block is its new tip.
PollBestTip ==
    /\ start.chain_sync
    /\ chain.spv_tip # None
    /\ Unwrap(chain.spv_tip) < chain.latest_height
    /\ chain' = [chain EXCEPT
                    !.connected = @ \cup ((Unwrap(chain.spv_tip) + 1)..chain.latest_height),
                    !.spv_tip = Some(chain.latest_height)]
    /\ UNCHANGED <<start, locked, listing, network, pc, chan, senders_open,
                   cm_events, mon_events, events, inbound_payments,
                   outbound_payments, funding_generated, broadcasts,
                   forward_tasks, drained, handled, last, last_claim, emitted,
                   commands>>

\* Step 15: the task of handle_ldk_events, which goes to its recv().
StartEventHandling ==
    /\ start.pc = "events"
    /\ start' = [start EXCEPT !.pc = "background", !.event_task = TRUE]
    /\ pc' = "waiting"
    /\ UNCHANGED <<chain, locked, listing, network, chan, senders_open, cm_events,
                   mon_events, events, inbound_payments, outbound_payments,
                   funding_generated, broadcasts, forward_tasks, drained,
                   handled, last, last_claim, emitted, commands>>

\* Steps 16 and 17: BackgroundProcessor::start; then the command loop.
StartBackground ==
    /\ start.pc = "background"
    /\ start' = [start EXCEPT !.pc = "running", !.background = TRUE]
    /\ StartFrame

StartNext ==
    \/ StartParseArgs
    \/ StartConnect
    \/ StartCheckNetwork
    \/ StartKeysManager
    \/ StartChannelManager
    \/ StartNetworking
    \/ StartChainSync
    \/ StartEventHandling
    \/ StartBackground
    \/ ChainAdvance
    \/ PollBestTip

\* start_ldk up to the command loop, while bitcoind gains blocks and the
\* spawned task polls.
StartSpec == StartInit /\ [][StartNext]_vars

----------------------------------------------------------------------------
(* The order of a batch                                                     *)

\* The kinds of event the channel manager produces; the chain monitor
\* produces the SpendableOutputs events.
ManagerKinds ==
    {"FundingGenerationReady", "PaymentReceived", "PaymentSent",
     "PaymentFailed", "PendingHTLCsForwardable"}

\* C11: within a cycle the events are handled one at a time in the order they
\* were drained: the batch is the channel manager's pending events in the
\* order they were produced followed by the chain monitor's in the order they
\* were produced, every step of the for loop handles the first event of what
\* is left of the batch, whole, and then goes to the one behind it (or the
\* task ends).
C11_HandledInDrainOrder ==
    [][/\ (pc = "drain_manager" /\ pc' = "drain_monitor") => events' = cm_events
       /\ (pc = "drain_monitor" /\ pc' = "processing")
              => events' = events \o mon_events
       /\ (pc = "processing" /\ events' # events)
              => /\ last'.event = Some(Head(events))
                 /\ \/ events' = Tail(events) /\ handled' = handled + 1
                    \/ pc' = "panicked"
       /\ last' # last => pc = "processing" /\ events' # events]_vars

\* A batch of a channel manager event and a chain monitor event: the channel
\* manager's was handled, the chain monitor's is the one left.
C11_Witness ==
    /\ pc = "processing"
    /\ drained = 2
    /\ handled = 1
    /\ last.kind \in ManagerKinds
    /\ Len(events) = 1
    /\ events[1].kind = "SpendableOutputs"

----------------------------------------------------------------------------
(* Event::PaymentFailed, as the tables see it                               *)

\* The step that handles the PaymentFailed event at the head of the batch.
PaymentFailedStep == Handling("PaymentFailed") /\ handled' # handled

\* C12: handling PaymentFailed sets the status of the outbound record of the
\* hash to Failed when there is one and changes nothing else of it; when
\* there is none the outbound table stays as it is, no record is inserted; in
\* both cases the inbound table is untouched and the loop goes on to the next
\* event of the batch.
C12_PaymentFailedFrame ==
    [][PaymentFailedStep =>
        LET h == Head(events).payment_hash IN
        /\ inbound_payments' = inbound_payments
        /\ DOMAIN outbound_payments' = DOMAIN outbound_payments
        /\ \A k \in DOMAIN outbound_payments :
              IF k = h
              THEN /\ outbound_payments'[k].status = "Failed"
                   /\ outbound_payments'[k].preimage = outbound_payments[k].preimage
                   /\ outbound_payments'[k].secret = outbound_payments[k].secret
                   /\ outbound_payments'[k].amt_msat = outbound_payments[k].amt_msat
              ELSE outbound_payments'[k] = outbound_payments[k]
        /\ pc' = "processing"
        /\ events' = Tail(events)]_vars

\* A PaymentFailed event for a hash without an outbound record was handled
\* while another hash had one: the hash still has no record, the loop runs.
C12_Witness ==
    /\ last.kind = "PaymentFailed"
    /\ last.before = "Absent"
    /\ Unwrap(last.event).payment_hash \notin DOMAIN outbound_payments
    /\ outbound_payments # EmptyStorage
    /\ pc \in {"processing", "sleeping", "waiting"}

----------------------------------------------------------------------------
(* Readers of the payment tables                                            *)

\* An arm has written some but not all of the fields it writes to a record
\* of the table.
MidUpdate(table) ==
    \/ table = "inbound" /\ pc \in {"received_status", "received_preimage"}
    \/ table = "outbound" /\ pc = "sent_preimage"

\* C13: a listing never shows a record an arm has updated in part. While an
\* arm is between two of its writes to a record, the table's lock is held;
\* and in every row the command layer listed, an inbound record whose status
\* PaymentReceived has set carries the preimage of that event, and an
\* outbound record that carries the preimage PaymentSent has set is no longer
\* Pending.
C13_NoPartialRecordListed ==
    /\ \A table \in {"inbound", "outbound"} : MidUpdate(table) => table \in locked
    /\ listing.table = "inbound"
          => LET info == Unwrap(listing.row).info IN
             info.status # "Pending" => info.preimage # None
    /\ listing.table = "outbound"
          => LET info == Unwrap(listing.row).info IN
             info.preimage # None => info.status # "Pending"

\* The command layer listed the outbound table with a record PaymentSent has
\* updated: it shows both the preimage and Succeeded.
C13_Witness ==
    /\ listing.table = "outbound"
    /\ last.kind = "PaymentSent"
    /\ last.before = "Pending"
    /\ Unwrap(listing.row).info.status = "Succeeded"
    /\ Unwrap(listing.row).info.preimage # None

----------------------------------------------------------------------------
(* The end of the task of handle_ldk_events                                 *)

\* The task of handle_ldk_events is over: it returned or it panicked.
Terminated == pc \in {"shutdown", "panicked"}

\* C14: the task of handle_ldk_events ends only by returning from recv() on
\* a channel that is empty and whose senders are all gone; while a sender
\* lives the task is running, whatever the events and the results of the
\* collaborators were.
C14_StopsOnlyWhenClosed ==
    Terminated => (pc = "shutdown" /\ ~senders_open /\ chan = 0)

----------------------------------------------------------------------------
(* The exits of start_ldk                                                   *)

\* start_ldk returned because bitcoind could not be reached or runs another
\* chain than the one of args.network.
AbortedOnChainSource ==
    start.pc = "exited" /\ start.exit \in {"unreachable", "network_mismatch"}

\* C15: start_ldk does not get past a bitcoind that cannot be reached or
\* that reports another chain than the configured network's: it returns
\* there, and then no channel manager was created and neither the peer
\* listener, the chain synchronizer task, the task of handle_ldk_events nor
\* the background processor was started.
C15_AbortStartsNothing ==
    /\ (start.bitcoind_chain # None
            /\ Unwrap(start.bitcoind_chain) # ChainName(network))
          => (start.pc = "exited" /\ start.exit = "network_mismatch")
    /\ (start.pc \notin {"args", "connect", "check_network", "exited"})
          => start.bitcoind_chain = Some(ChainName(network))
    /\ AbortedOnChainSource
          => /\ ~start.channel_manager
             /\ ~start.listener
             /\ ~start.chain_sync
             /\ ~start.event_task
             /\ ~start.background
             /\ pc = "not_started"

\* bitcoind was reached and reported a chain that is not the configured
\* network's: start_ldk has returned.
C15_Witness ==
    /\ start.pc = "exited"
    /\ start.exit = "network_mismatch"
    /\ start.bitcoind_chain # None

----------------------------------------------------------------------------
(* The batch of a cycle                                                     *)

\* seq is what is left of whole when some of its first elements are taken.
IsSuffix(seq, whole) ==
    /\ Len(seq) <= Len(whole)
    /\ seq = SubSeq(whole, Len(whole) - Len(seq) + 1, Len(whole))

\* whole starts with seq.
IsPrefix(seq, whole) ==
    /\ Len(seq) <= Len(whole)
    /\ seq = SubSeq(whole, 1, Len(seq))

----------------------------------------------------------------------------
(* The tasks spawned for PendingHTLCsForwardable                            *)

\* A spawned task that has not called process_pending_htlc_forwards.
Unforwarded(task) == task.stage \in {"spawned", "sleeping", "panicked"}

\* C17: handling PendingHTLCsForwardable does not hold the loop up. The arm
\* is over when the task is spawned: the task has not drawn its delay, let
\* alone slept or forwarded, and the loop is at the next event. A step of a
\* spawned task, its panic included, changes nothing of the loop. And
\* whenever the loop has an event to handle or a sleep to end while a task
\* has not forwarded, the loop can take its step.
C17_ForwardingIsDetached ==
    /\ [][(Handling("PendingHTLCsForwardable") /\ handled' # handled)
            => /\ forward_tasks' =
                      Append(forward_tasks,
                             [min |-> Head(events).time_forwardable,
                              stage |-> "spawned", millis_to_sleep |-> 0])
               /\ events' = Tail(events)
               /\ pc' = "processing"]_vars
    /\ [][(forward_tasks' # forward_tasks
              /\ Len(forward_tasks') = Len(forward_tasks))
            => /\ pc' = pc
               /\ events' = events
               /\ handled' = handled
               /\ chan' = chan]_vars
    /\ []((/\ \E i \in DOMAIN forward_tasks : Unforwarded(forward_tasks[i])
           /\ \/ pc = "processing" /\ events # <<>>
              \/ pc = "sleeping")
            => ENABLED Dispatcher)

\* A batch of a PendingHTLCsForwardable event and another event: the other
\* event has been handled while the spawned task has not forwarded.
C17_Witness ==
    /\ Len(forward_tasks) = 1
    /\ Unforwarded(forward_tasks[1])
    /\ drained = 2
    /\ handled = 2
    /\ last.kind \notin {"none", "PendingHTLCsForwardable"}
    /\ pc \in {"processing", "sleeping"}

\* C18: for every PendingHTLCsForwardable event, whatever its minimum m, 0
\* included, the spawned task draws a delay d with m <= d <= 5 m and goes on
\* to its call of process_pending_htlc_forwards: no task ends without it.
C18_EveryForwardRuns ==
    \A i \in DOMAIN forward_tasks :
        LET task == forward_tasks[i] IN
        /\ task.stage # "panicked"
        /\ task.stage \in {"sleeping", "forwarded"}
              => (task.min <= task.millis_to_sleep
                    /\ task.millis_to_sleep <= 5 * task.min)

----------------------------------------------------------------------------
(* The keys of the payment tables                                           *)

\* C19: no step removes a payment hash from a table: a hash that is a key of
\* the inbound table stays a key of it, and the same for the outbound table.
\* A table is a map from hashes, so it has one record for a hash or none.
C19_HashesAreKept ==
    [][/\ DOMAIN inbound_payments \subseteq DOMAIN inbound_payments'
       /\ DOMAIN outbound_payments \subseteq DOMAIN outbound_payments']_vars

\* PaymentFailed was handled for a hash that had an outbound record: the
\* record is still there, Failed.
C19_Witness ==
    /\ last.kind = "PaymentFailed"
    /\ last.before # "Absent"
    /\ Failed(outbound_payments, Unwrap(last.event).payment_hash)

----------------------------------------------------------------------------
(* Signals that arrive while the loop is busy                               *)

\* C20: no wake-up is lost. When an event is pending and a signal is in the
\* channel while the loop handles a batch or sleeps, the loop comes to a
\* further drain of the pending events, without another signal.
C20_NoLostWakeup ==
    (/\ pc \in {"processing", "sleeping"}
     /\ chan > 0
     /\ Len(cm_events) + Len(mon_events) > 0)
        ~> (pc = "drain_manager")

----------------------------------------------------------------------------
(* The blocks a fresh node is told of                                       *)

\* C21: a fresh node skips no block between Step 8 and the polling. The
\* SpvClient gives block_connected only blocks above the tip it holds, so
\* every block above the best block the channel manager was created with and
\* up to the tip the SpvClient holds has to be connected already: the two
\* are the same block when the task is spawned, and afterwards the blocks
\* between them are the ones the polling has delivered.
C21_NoBlockSkipped ==
    (/\ ~start.restarting_node
     /\ start.best_block # None
     /\ chain.spv_tip # None)
        => \A h \in (Unwrap(start.best_block) + 1)..Unwrap(chain.spv_tip) :
              h \in chain.connected

====
